---- MODULE Spec2Model ----
(***************************************************************************)
(* Model of crt_cp.py: distribution of a certificate bundle from the       *)
(* staging directory ARCHIVE_PATH/<batch> to the destination directories   *)
(* of the services that the manifest ARCHIVE_PATH/INFO registers for the   *)
(* batch.  One behaviour is one run of the script on one filesystem.       *)
(***************************************************************************)
EXTENDS Integers, Sequences, FiniteSets, TLC

\* Longest service list of a manifest record that is enumerated.
MaxServices == 2

----------------------------------------------------------------------------
\* Module constants of the script.

\* Variant: the names taken in alphabetical order.
CERT_FILES_ByName == <<"cert.pem", "fullchain.pem", "privkey.pem">>

CERT_FILES == <<"cert.pem", "privkey.pem", "fullchain.pem">>

BASE_PATH == "/usr/syno/etc/certificate"

PKG_BASE_PATH == "/usr/local/etc/certificate"

CertNames == {CERT_FILES[k] : k \in 1..Len(CERT_FILES)}

Roots == {BASE_PATH, PKG_BASE_PATH}

----------------------------------------------------------------------------
\* Manifest content.  A list element of "services" is a JSON object holding
\* some of the four descriptor fields.

WebSvc == [isPkg |-> FALSE, subscriber |-> "acme", service |-> "web",
           display_name |-> "ACME Web"]

MailSvc == [isPkg |-> TRUE, subscriber |-> "acme", service |-> "mail",
            display_name |-> "ACME Mail"]

\* An object without display_name (same target as WebSvc).
NoNameSvc == [isPkg |-> FALSE, subscriber |-> "acme", service |-> "web"]

\* An object without subscriber.
NoSubscriberSvc == [isPkg |-> TRUE, service |-> "mail",
                    display_name |-> "ACME Mail"]

Items == {WebSvc, MailSvc, NoNameSvc, NoSubscriberSvc}

ItemLists == UNION {[1..n -> Items] : n \in 0..MaxServices}

BatchIds == {"batch1", "batch2"}

\* file: state of ARCHIVE_PATH/INFO; json: what its text parses to;
\* batches: top-level keys; hasServices: the batch record has "services";
\* isList: the "services" value is a list (otherwise a number);
\* items: the elements of the list.
Manifest(file, json, batches, hasServices, isList, items) ==
    [file |-> file, json |-> json, batches |-> batches,
     hasServices |-> hasServices, isList |-> isList, items |-> items]

Manifests ==
    {Manifest("missing", "invalid", {}, FALSE, FALSE, <<>>),
     Manifest("unreadable", "invalid", {}, FALSE, FALSE, <<>>),
     Manifest("text", "invalid", {}, FALSE, FALSE, <<>>),
     Manifest("text", "number", {}, FALSE, FALSE, <<>>),
     Manifest("text", "object", {"batch1"}, FALSE, FALSE, <<>>),
     Manifest("text", "object", {"batch1"}, TRUE, FALSE, <<>>)}
    \cup {Manifest("text", "object", {"batch1"}, TRUE, TRUE, l) : l \in ItemLists}

\* sys.argv: the script name followed by the command-line arguments.
Argvs == {<<"crt_cp.py">>, <<"crt_cp.py", "batch1">>, <<"crt_cp.py", "batch2">>,
          <<"crt_cp.py", "batch1", "batch2">>}

----------------------------------------------------------------------------
\* Filesystem.

TargetDir(service) ==
    <<IF service.isPkg THEN PKG_BASE_PATH ELSE BASE_PATH,
      service.subscriber, service.service>>

DestDirs == {TargetDir(WebSvc), TargetDir(MailSvc)}

NoFiles == [f \in CertNames |-> "none"]

OldFiles == [f \in CertNames |-> "old"]

VARIABLES
    argv,          \* sys.argv
    manifest,      \* content of ARCHIVE_PATH/INFO
    staging,       \* staging[f]: content of ARCHIVE_PATH/<batch>/f, or "none"
    rootWritable,  \* rootWritable[r]: directories can be created under root r
    dirs,          \* dirs[d]: "absent", "rw" or "ro" (exists, not writable)
    files,         \* files[d][f]: content of d/f, or "none"
    fs0,           \* dirs and files as they were before the first run
    pc,            \* position of the thread of control
    services,      \* value returned by load_service_info, [isList, items]
    loadRet,       \* <<sequence, status>> returned by load_service_info
    idx,           \* position of the generator of line 113 in services
    fileIdx,       \* position of the loop of line 56 in CERT_FILES
    success,       \* local variable success of copy_certificates
    result,        \* "True" or "False" returned by process_certificates, or "none"
    exitCode,      \* exit status of the process, or "none"
    trace,         \* filesystem operations performed, in order
    log,           \* log records emitted, in order
    runs,          \* number of calls of process_certificates started
    prev           \* result, dirs and files at the end of the previous call

vars == <<argv, manifest, staging, rootWritable, dirs, files, fs0, pc,
          services, loadRet, idx, fileIdx, success, result, exitCode,
          trace, log, runs, prev>>

env == <<argv, manifest, staging, rootWritable, fs0>>

Event(op, svc, file, ok) == [op |-> op, svc |-> svc, file |-> file, ok |-> ok]

NoServices == [isList |-> TRUE, items |-> <<>>]

Init ==
    /\ argv \in Argvs
    /\ manifest \in Manifests
    /\ staging \in [CertNames -> {"none", "new"}]
    /\ rootWritable \in [Roots -> BOOLEAN]
    /\ dirs \in [DestDirs -> {"absent", "rw", "ro"}]
    /\ files = [d \in DestDirs |-> IF dirs[d] = "absent" THEN NoFiles ELSE OldFiles]
    /\ fs0 = [dirs |-> dirs, files |-> files]
    /\ pc = "main"
    /\ services = NoServices
    /\ loadRet = <<>>
    /\ idx = 0
    /\ fileIdx = 0
    /\ success = TRUE
    /\ result = "none"
    /\ exitCode = "none"
    /\ trace = <<>>
    /\ log = <<>>
    /\ runs = 0
    /\ prev = <<>>

----------------------------------------------------------------------------
\* Variant: a missing INFO file counts as a batch without services.
LoadServiceInfoMissingOk(m, b) ==
    CASE m.file = "missing" ->
           [services |-> NoServices, ok |-> TRUE, log |-> "none"]
      [] m.file = "unreadable" ->
           [services |-> NoServices, ok |-> FALSE, log |-> "OSError"]
      [] m.json = "invalid" ->
           [services |-> NoServices, ok |-> FALSE, log |-> "Invalid JSON"]
      [] m.json = "number" ->
           [services |-> NoServices, ok |-> FALSE, log |-> "TypeError"]
      [] b \notin m.batches ->
           [services |-> NoServices, ok |-> FALSE, log |-> "not found in INFO file"]
      [] ~m.hasServices ->
           [services |-> NoServices, ok |-> FALSE, log |-> "KeyError"]
      [] OTHER ->
           [services |-> [isList |-> m.isList, items |-> m.items],
            ok |-> TRUE, log |-> "none"]

\* Variant: no test of line 82; the record of the only registered batch is
\* used whatever the batch name is.
LoadServiceInfoAnyBatch(m, b) ==
    CASE m.file = "missing" ->
           [services |-> NoServices, ok |-> FALSE, log |-> "File not found"]
      [] m.file = "unreadable" ->
           [services |-> NoServices, ok |-> FALSE, log |-> "OSError"]
      [] m.json = "invalid" ->
           [services |-> NoServices, ok |-> FALSE, log |-> "Invalid JSON"]
      [] m.json = "number" ->
           [services |-> NoServices, ok |-> FALSE, log |-> "TypeError"]
      [] ~m.hasServices ->
           [services |-> NoServices, ok |-> FALSE, log |-> "KeyError"]
      [] OTHER ->
           [services |-> [isList |-> m.isList, items |-> m.items],
            ok |-> TRUE, log |-> "none"]

\* Variant: line 84 returns the parsed list together with the failure.
LoadServiceInfoPartial(m, b) ==
    CASE m.file = "missing" ->
           [services |-> NoServices, ok |-> FALSE, log |-> "File not found"]
      [] m.file = "unreadable" ->
           [services |-> NoServices, ok |-> FALSE, log |-> "OSError"]
      [] m.json = "invalid" ->
           [services |-> NoServices, ok |-> FALSE, log |-> "Invalid JSON"]
      [] m.json = "number" ->
           [services |-> NoServices, ok |-> FALSE, log |-> "TypeError"]
      [] b \notin m.batches ->
           [services |-> [isList |-> TRUE, items |-> m.items], ok |-> FALSE,
            log |-> "not found in INFO file"]
      [] ~m.hasServices ->
           [services |-> NoServices, ok |-> FALSE, log |-> "KeyError"]
      [] OTHER ->
           [services |-> [isList |-> m.isList, items |-> m.items],
            ok |-> TRUE, log |-> "none"]

\* load_service_info, lines 79-95, as a function of the manifest file m and
\* the batch name b: the pair it returns and the record it logs.
\*   line 80: read_text raises FileNotFoundError (line 88) or another OSError
\*            (line 92); json.loads raises JSONDecodeError (line 90);
\*   line 82: "b in services" raises TypeError on a JSON number (line 92);
\*   line 86: services[b]["services"] raises KeyError (line 92).
LoadServiceInfo(m, b) ==
    CASE m.file = "missing" ->
           [services |-> NoServices, ok |-> FALSE, log |-> "File not found"]
      [] m.file = "unreadable" ->
           [services |-> NoServices, ok |-> FALSE, log |-> "OSError"]
      [] m.json = "invalid" ->
           [services |-> NoServices, ok |-> FALSE, log |-> "Invalid JSON"]
      [] m.json = "number" ->
           [services |-> NoServices, ok |-> FALSE, log |-> "TypeError"]
      [] b \notin m.batches ->
           [services |-> NoServices, ok |-> FALSE, log |-> "not found in INFO file"]
      [] ~m.hasServices ->
           [services |-> NoServices, ok |-> FALSE, log |-> "KeyError"]
      [] OTHER ->
           [services |-> [isList |-> m.isList, items |-> m.items],
            ok |-> TRUE, log |-> "none"]

\* Variant: mkdir without exist_ok, which rejects an existing directory.
MkdirNoExistOk(d) == dirs[d] = "absent" /\ rootWritable[d[1]]

\* Path.mkdir(parents=True, exist_ok=True), line 51: an existing directory is
\* accepted, a missing one is created when its root allows it.
MkdirOK(d) == dirs[d] # "absent" \/ rootWritable[d[1]]

\* shutil.copy2(src, dest), line 59: the source must exist and the
\* destination directory must be writable.
Copy2OK(d, f) == staging[f] # "none" /\ dirs[d] = "rw"

\* Variant: success records the outcome of the latest copy only.
SuccessAfterLast(s, ok) == ok

\* Lines 54 and 60-62: success stays True until a copy raises.
SuccessAfter(s, ok) == s /\ ok

\* Variant: the except clause leaves the loop.
AfterCopyAbort(k, ok) == IF k = Len(CERT_FILES) \/ ~ok THEN "ret" ELSE "copy"

\* Lines 56-62: the except clause keeps the loop going; it ends after the
\* last name of CERT_FILES (k is the position, ok the outcome of the copy).
AfterCopy(k, ok) == IF k = Len(CERT_FILES) THEN "ret" ELSE "copy"

\* all(...) of line 113 consumes the generator until the first False.
AllStops(s) == ~s

\* Variant: sys.exit(process_certificates(...)), the truth value as status.
ExitStatusBool(r) == IF r = "True" THEN 1 ELSE 0

\* Line 121: the exit status for the value process_certificates returned.
ExitStatus(r) == IF r = "True" THEN 0 ELSE 1

\* Fields read by line 50, in evaluation order.
TargetFields == {"isPkg", "subscriber", "service"}

Crash ==
    /\ pc' = "crashed"
    /\ UNCHANGED <<idx, fileIdx, success, result, exitCode>>

----------------------------------------------------------------------------
\* main, lines 116-118: a wrong number of arguments is a usage error.
Main ==
    /\ pc = "main"
    /\ IF Len(argv) # 2
       THEN /\ pc' = "exited"
            /\ exitCode' = 1
            /\ runs' = runs
       ELSE /\ pc' = "load"
            /\ exitCode' = exitCode
            /\ runs' = runs + 1
    /\ UNCHANGED <<env, dirs, files, services, loadRet, idx, fileIdx, success,
                   result, trace, log, prev>>

\* process_certificates, lines 107-111, and the creation of the generator of
\* line 113 (iter(services) raises TypeError when services is no list).
Load ==
    /\ pc = "load"
    /\ LET r == LoadServiceInfo(manifest, argv[2]) IN
       /\ loadRet' = <<r.services, r.ok>>
       /\ services' = r.services
       /\ trace' = Append(trace, Event("read", 0, "INFO", r.ok))
       /\ log' = IF r.ok THEN log ELSE Append(log, <<"ERROR", r.log>>)
       /\ IF ~r.ok
          THEN /\ result' = "False"
               /\ pc' = "returned"
               /\ idx' = idx
          ELSE IF ~r.services.isList
          THEN /\ pc' = "crashed"
               /\ UNCHANGED <<result, idx>>
          ELSE /\ pc' = "all"
               /\ idx' = 1
               /\ result' = result
    /\ UNCHANGED <<env, dirs, files, fileIdx, success, exitCode, runs, prev>>

\* all(...), line 113: take the next service from the generator, or return
\* True when it is exhausted.
AllNext ==
    /\ pc = "all"
    /\ IF idx > Len(services.items)
       THEN /\ result' = "True"
            /\ pc' = "returned"
       ELSE /\ pc' = "target"
            /\ result' = result
    /\ UNCHANGED <<env, dirs, files, services, loadRet, idx, fileIdx, success,
                   exitCode, trace, log, runs, prev>>

\* copy_certificates, lines 50-51: a missing field raises KeyError, a
\* directory that cannot be created raises OSError.
Target ==
    /\ pc = "target"
    /\ LET service == services.items[idx] IN
       IF ~(TargetFields \subseteq DOMAIN service)
       THEN /\ Crash
            /\ UNCHANGED <<dirs, trace>>
       ELSE LET d == TargetDir(service) IN
            /\ trace' = Append(trace, Event("mkdir", idx, d, MkdirOK(d)))
            /\ IF MkdirOK(d)
               THEN /\ dirs' = [dirs EXCEPT ![d] = IF @ = "absent" THEN "rw" ELSE @]
                    /\ pc' = "info"
                    /\ UNCHANGED <<idx, fileIdx, success, result, exitCode>>
               ELSE /\ Crash
                    /\ dirs' = dirs
    /\ UNCHANGED <<env, files, services, loadRet, log, runs, prev>>

\* copy_certificates, lines 53-54: the progress line needs display_name.
Info ==
    /\ pc = "info"
    /\ LET service == services.items[idx] IN
       IF "display_name" \notin DOMAIN service
       THEN /\ Crash
            /\ log' = log
       ELSE /\ log' = Append(log, <<"INFO", service.display_name>>)
            /\ success' = TRUE
            /\ fileIdx' = 1
            /\ pc' = "copy"
            /\ UNCHANGED <<idx, result, exitCode>>
    /\ UNCHANGED <<env, dirs, files, services, loadRet, trace, runs, prev>>

\* copy_certificates, lines 56-62: one iteration of the loop over CERT_FILES.
Copy ==
    /\ pc = "copy"
    /\ LET d == TargetDir(services.items[idx])
           f == CERT_FILES[fileIdx]
           ok == Copy2OK(d, f)
       IN /\ trace' = Append(trace, Event("copy", idx, f, ok))
          /\ files' = IF ok THEN [files EXCEPT ![d][f] = staging[f]] ELSE files
          /\ log' = IF ok THEN log ELSE Append(log, <<"WARNING", f>>)
          /\ success' = SuccessAfter(success, ok)
          /\ pc' = AfterCopy(fileIdx, ok)
          /\ fileIdx' = IF AfterCopy(fileIdx, ok) = "copy" THEN fileIdx + 1 ELSE fileIdx
    /\ UNCHANGED <<env, dirs, services, loadRet, idx, result, exitCode, runs, prev>>

\* copy_certificates returns success (line 64) to all(...) (line 113), which
\* returns False at once or goes on to the next service.
Ret ==
    /\ pc = "ret"
    /\ IF AllStops(success)
       THEN /\ result' = "False"
            /\ pc' = "returned"
            /\ idx' = idx
       ELSE /\ pc' = "all"
            /\ idx' = idx + 1
            /\ result' = result
    /\ UNCHANGED <<env, dirs, files, services, loadRet, fileIdx, success,
                   exitCode, trace, log, runs, prev>>

\* main, line 121: sys.exit with the status of the returned value.
Exit ==
    /\ pc = "returned"
    /\ exitCode' = ExitStatus(result)
    /\ pc' = "exited"
    /\ UNCHANGED <<env, dirs, files, services, loadRet, idx, fileIdx, success,
                   result, trace, log, runs, prev>>

\* An exception that nothing catches leaves main (lines 121, 124): the
\* interpreter prints the traceback and ends the process with status 1.
Uncaught ==
    /\ pc = "crashed"
    /\ exitCode' = 1
    /\ pc' = "exited"
    /\ UNCHANGED <<env, dirs, files, services, loadRet, idx, fileIdx, success,
                   result, trace, log, runs, prev>>

Next == Main \/ Load \/ AllNext \/ Target \/ Info \/ Copy \/ Ret \/ Exit \/ Uncaught

Spec == Init /\ [][Next]_vars

\* A caller that invokes process_certificates(B) a second time on the
\* filesystem the first call left, manifest and staging unchanged.
Rerun ==
    /\ pc = "returned"
    /\ runs = 1
    /\ prev' = <<result, dirs, files>>
    /\ runs' = runs + 1
    /\ pc' = "load"
    /\ result' = "none"
    /\ trace' = <<>>
    /\ log' = <<>>
    /\ UNCHANGED <<env, dirs, files, services, loadRet, idx, fileIdx, success,
                   exitCode>>

NextTwice == Next \/ Rerun

SpecTwice == Init /\ [][NextTwice]_vars

----------------------------------------------------------------------------
\* Properties.

Fields == {"isPkg", "subscriber", "service", "display_name"}

\* The manifest is well formed and registers batch b with a list of complete
\* descriptors.
WellFormed(m, b) ==
    /\ m.file = "text"
    /\ m.json = "object"
    /\ b \in m.batches
    /\ m.hasServices
    /\ m.isList
    /\ \A i \in 1..Len(m.items) : DOMAIN m.items[i] = Fields

\* The call of process_certificates has ended, by a return or an exception.
Ended == pc \in {"returned", "crashed", "exited"}

\* load_service_info has returned.
Loaded == pc \notin {"main", "load"} /\ loadRet # <<>>

CopyEvents(i, f) ==
    {k \in 1..Len(trace) :
        trace[k].op = "copy" /\ trace[k].svc = i /\ trace[k].file = f}

Copied(i, f) == \E k \in CopyEvents(i, f) : trace[k].ok

Attempted(i) == \E k \in 1..Len(trace) : trace[k].op = "mkdir" /\ trace[k].svc = i

\* Before the run, file f is in staging and the directory d is writable, or
\* absent under a root in which it can be created.
CanCopy0(d, f) ==
    /\ staging[f] # "none"
    /\ \/ fs0.dirs[d] = "rw"
       \/ fs0.dirs[d] = "absent" /\ rootWritable[d[1]]

AllCanCopy0 ==
    \A i \in 1..Len(manifest.items) : \A f \in CertNames :
        CanCopy0(TargetDir(manifest.items[i]), f)

DestUnchanged == dirs = fs0.dirs /\ files = fs0.files

\* C1: once a well-formed manifest resolved, every service of the batch
\* has been attempted by the time process_certificates returns, whatever the
\* earlier services returned.
C1_EveryServiceAttempted ==
    (Loaded /\ loadRet[2] /\ WellFormed(manifest, argv[2]) /\ result # "none")
        => \A i \in 1..Len(services.items) : Attempted(i)

\* C2: for a well-formed manifest, process_certificates returns True exactly
\* when every file can be copied for every service (file in staging,
\* destination writable), which is exactly when all 3*|S| copies succeeded.
C2_TrueIffAllCopiesSucceed ==
    (Len(argv) = 2 /\ Ended /\ WellFormed(manifest, argv[2]))
        => /\ (result = "True") <=> AllCanCopy0
           /\ (result = "True") <=>
                 \A i \in 1..Len(manifest.items) : \A f \in CertNames : Copied(i, f)

C2_Witness ==
    /\ pc = "returned"
    /\ result = "True"
    /\ WellFormed(manifest, argv[2])
    /\ Len(manifest.items) = 2
    /\ \E d \in DestDirs : fs0.dirs[d] = "absent" /\ files[d] = staging

\* C3: when copy_certificates returns, each of the three files has been
\* attempted exactly once, every file that is in staging while the
\* destination is writable is at the destination, and the result is False
\* exactly when one of the three copies failed; no exception leaves the loop.
C3_LoopNeverStops ==
    /\ pc = "ret" =>
         LET d == TargetDir(services.items[idx]) IN
         /\ \A f \in CertNames : Cardinality(CopyEvents(idx, f)) = 1
         /\ \A f \in CertNames :
               (staging[f] # "none" /\ dirs[d] = "rw") => files[d][f] = staging[f]
         /\ (success = FALSE) <=>
               \E f \in CertNames : \E k \in CopyEvents(idx, f) : ~trace[k].ok
    /\ pc = "crashed" => \A f \in CertNames : CopyEvents(idx, f) = {}

C3_Witness ==
    /\ pc = "ret"
    /\ success = FALSE
    /\ staging["privkey.pem"] = "none"
    /\ LET d == TargetDir(services.items[idx]) IN
       /\ fs0.files[d]["cert.pem"] # "new"
       /\ files[d]["cert.pem"] = "new"
       /\ files[d]["fullchain.pem"] = "new"
       /\ files[d]["privkey.pem"] = fs0.files[d]["privkey.pem"]

\* The manifest file is missing, unreadable, not JSON, not a JSON object, or
\* its batch record has no "services" entry.
ManifestBroken ==
    \/ manifest.file # "text"
    \/ manifest.json # "object"
    \/ ~manifest.hasServices

C5_UnknownBatchReadsNothing ==
    (Loaded /\ manifest.file = "text" /\ manifest.json = "object"
       /\ argv[2] \notin manifest.batches)
        => /\ result = "False"
           /\ \A k \in 1..Len(trace) : trace[k].op = "read"
           /\ DestUnchanged

C5_Witness ==
    /\ pc = "exited"
    /\ Loaded
    /\ argv[2] = "batch2"
    /\ WellFormed(manifest, "batch1")
    /\ Len(manifest.items) > 0
    /\ \A f \in CertNames : staging[f] = "new"
    /\ result = "False"
    /\ Len(trace) = 1
    /\ trace[1] = Event("read", 0, "INFO", FALSE)

\* C6: no exception escapes process_certificates, whatever the manifest
\* holds and whatever the filesystem does.
C6_NoExceptionEscapes == pc # "crashed"

\* Every service of the batch copied all three files.
AllServicesCopied ==
    /\ Len(argv) = 2
    /\ Loaded
    /\ loadRet[2]
    /\ services.isList
    /\ \A i \in 1..Len(services.items) : \A f \in CertNames : Copied(i, f)

\* C7: the exit status is 0 exactly when every service of the batch copied
\* all three files, and 1 otherwise; with a wrong number of arguments it is 1
\* and neither the manifest nor a destination has been touched.
C7_ExitCode ==
    pc = "exited"
        => /\ exitCode \in {0, 1}
           /\ (exitCode = 0) <=> AllServicesCopied
           /\ Len(argv) # 2 => (exitCode = 1 /\ trace = <<>> /\ DestUnchanged)

C7_Witness ==
    /\ pc = "exited"
    /\ exitCode = 0
    /\ Len(services.items) = 2
    /\ services.items[1] # services.items[2]
    /\ \A d \in DestDirs : files[d] = staging

\* Staging holds the three files, and every target of the batch is writable
\* or can be created.
AllPresentAndWritable ==
    /\ Len(argv) = 2
    /\ WellFormed(manifest, argv[2])
    /\ AllCanCopy0

\* C8: with all files present and the destinations writable, the second of
\* two successive calls returns True like the first, and leaves the
\* destination directories and files as the first left them.
C8_SecondRunIdentical ==
    (runs = 2 /\ Ended /\ AllPresentAndWritable)
        => /\ prev[1] = "True"
           /\ result = "True"
           /\ dirs = prev[2]
           /\ files = prev[3]
           /\ \A i \in 1..Len(manifest.items) :
                 files[TargetDir(manifest.items[i])] = staging

C8_Witness ==
    /\ runs = 2
    /\ pc = "returned"
    /\ result = "True"
    /\ prev[1] = "True"
    /\ Len(manifest.items) = 2
    /\ \E d \in DestDirs : fs0.dirs[d] = "absent" /\ dirs[d] = "rw"
    /\ \E d \in DestDirs : fs0.files[d] = OldFiles /\ files[d] = staging
    /\ Len(trace) = 9

\* The error of section 4.1 that manifest m and batch b lead to.
ErrorKind(m, b) ==
    CASE m.file = "missing" -> "ManifestNotFound"
      [] m.file = "unreadable" -> "ManifestReadError"
      [] m.json = "invalid" -> "ManifestCorrupt"
      [] m.json = "number" -> "ManifestReadError"
      [] b \notin m.batches -> "BatchNotRegistered"
      [] ~m.hasServices -> "ManifestReadError"
      [] OTHER -> "none"

\* The error that a logged ERROR message names.
KindOfMessage(msg) ==
    CASE msg = "File not found" -> "ManifestNotFound"
      [] msg = "Invalid JSON" -> "ManifestCorrupt"
      [] msg = "not found in INFO file" -> "BatchNotRegistered"
      [] OTHER -> "ManifestReadError"

\* C9 as stated: the value load_service_info returned on an error differs
\* from the value it returns on every error of another kind.
C9_ErrorsDistinguishableByCaller ==
    (Loaded /\ ~loadRet[2])
        => \A m \in Manifests : \A b \in BatchIds :
              ErrorKind(m, b) \notin {"none", ErrorKind(manifest, argv[2])}
                 => <<LoadServiceInfo(m, b).services, LoadServiceInfo(m, b).ok>> # loadRet

\* C9 amended: on each of the four errors load_service_info returns the
\* empty sequence with the status False, never part of the service data,
\* and the kind of error is told by the one ERROR record it logs.
C9_ErrorsReturnEmptyAndLogKind ==
    (Loaded /\ ErrorKind(manifest, argv[2]) # "none")
        => /\ loadRet = <<NoServices, FALSE>>
           /\ services.items = <<>>
           /\ Len(log) = 1
           /\ log[1][1] = "ERROR"
           /\ KindOfMessage(log[1][2]) = ErrorKind(manifest, argv[2])

C9_Witness ==
    /\ Loaded
    /\ pc = "returned"
    /\ argv[2] = "batch2"
    /\ Len(manifest.items) = 2
    /\ loadRet = <<NoServices, FALSE>>
    /\ log = <<(<<"ERROR", "not found in INFO file">>)>>

\* The order in which lines 12 and 56 name the files.
FileOrder(f) ==
    CASE f = "cert.pem" -> 1
      [] f = "privkey.pem" -> 2
      [] f = "fullchain.pem" -> 3

\* C10: the manifest is read before anything else; services are handled in
\* manifest order, each after the previous one has had its three copies;
\* within a service the directory is ensured first and the files are then
\* attempted in the order cert.pem, privkey.pem, fullchain.pem; and nothing
\* of the destination changes but by these operations.
C10_FixedOrder ==
    /\ \A k \in 1..Len(trace) : (trace[k].op = "read") <=> (k = 1)
    /\ trace = <<>> => DestUnchanged
    /\ \A p \in 2..Len(trace) : \A q \in 2..Len(trace) :
          p < q =>
             /\ trace[p].svc <= trace[q].svc
             /\ trace[p].svc = trace[q].svc =>
                   /\ trace[q].op = "copy"
                   /\ trace[p].op = "copy" => FileOrder(trace[p].file) < FileOrder(trace[q].file)
    /\ \A q \in 2..Len(trace) :
          /\ trace[q].op = "mkdir" =>
                trace[q].file = TargetDir(manifest.items[trace[q].svc])
          /\ trace[q].op = "copy" => Attempted(trace[q].svc)
          /\ \A j \in 1..(trace[q].svc - 1) : \A f \in CertNames :
                Cardinality(CopyEvents(j, f)) = 1

C10_Witness ==
    /\ pc = "returned"
    /\ Len(trace) = 9
    /\ trace[2].op = "mkdir" /\ trace[2].svc = 1
    /\ trace[5].op = "copy" /\ trace[5].svc = 1 /\ trace[5].file = "fullchain.pem"
    /\ trace[6].op = "mkdir" /\ trace[6].svc = 2
    /\ trace[9].op = "copy" /\ trace[9].svc = 2 /\ ~trace[9].ok

====
